---------------------------- MODULE Spec2Model ----------------------------
(***************************************************************************)
(* A model of vector.py: the Vector value type over decimal.Decimal        *)
(* coordinates, computed under the process-wide context getcontext().prec  *)
(* = 3 (rounding ROUND_HALF_EVEN, the decimal module's default).           *)
(*                                                                         *)
(* A Decimal is a record [c, e] standing for the number c * 10^e, kept in  *)
(* canonical form (no trailing zero in c, zero is [c |-> 0, e |-> 0]), so  *)
(* that the numeric equality Decimal.__eq__ decides is equality of         *)
(* records.  Only the number is modelled: the sign of a zero and the       *)
(* exponent Python keeps for printing (1.50 against 1.5) are not, and no   *)
(* method of Vector but __str__ can tell them apart.                       *)
(*                                                                         *)
(* A float is modelled where the code produces one: the result of          *)
(* magnitude() is the record [sqrt_of |-> S], the square root of the       *)
(* Decimal S, and an angle is the record [acos_of |-> d, ...].             *)
(*                                                                         *)
(* A call returns Ok(value) or Raise(class, message).                      *)
(***************************************************************************)
EXTENDS Integers, Sequences, FiniteSets, TLC

(***************************************************************************)
(* Bounds of the model.                                                    *)
(***************************************************************************)
\* the longest coordinate list given to the constructor
MaxDim == 3
\* how many times a caller binds a returned Vector to self or v (SpecSeq)
MaxSteps == 2

\* the numbers given to the constructor as coordinates and as scalars
Coords == {-1, 0, 2}
\* the numbers that start a sequence of calls (SpecSeq)
SeedCoords == {2}

(***************************************************************************)
(* Program constants.                                                      *)
(***************************************************************************)
\* getcontext().prec = 3
Prec == 3

CANNOT_NORMALIZE_ZERO_VECTOR_MSG == "Cannot normalize the zero vector"
NO_UNIQUE_ORTHOGONAL_COMPONENT_MSG == "No unique orthogonal component exists"
NO_UNIQUE_PARALLEL_COMPONENT_MSG == "No unique parallel component exists"
ONLY_DEFINED_IN_THREE_DIMS_MSG == "Cross product can only be defined in three dimensions"
NONEMPTY_MSG == "The coordinates must be nonempty"
ITERABLE_MSG == "The coordinates must be an iterable"
ANGLE_ZERO_VECTOR_MSG == "Cannot compute an angle with the zero vector"
\* the message cross_product compares the unpacking error with
NOT_ENOUGH_VALUES_MSG == "not enough values to unpack"

(***************************************************************************)
(* Outcomes of a call, and Python's exception classes.                     *)
(***************************************************************************)
Ok(val) == [kind |-> "ok", val |-> val]
Raise(exc, msg) == [kind |-> "raise", exc |-> exc, msg |-> msg]
IsOk(r) == r.kind = "ok"
IsRaise(r) == r.kind = "raise"

\* isinstance(e, cls) for the classes the code raises and catches
IsInstance(exc, cls) == cls = "Exception" \/ exc = cls

(***************************************************************************)
(* Evaluation helpers.  With(x, F) is F(x) with x evaluated once, before F *)
(* is: Python evaluates an argument once, at the call.                     *)
(***************************************************************************)
With(x, F(_)) == CHOOSE r \in {F(a) : a \in {x}} : TRUE
With2(x, y, F(_, _)) == CHOOSE r \in {F(a, b) : a \in {x}, b \in {y}} : TRUE

\* a list comprehension, evaluated: the tuple of the values of f
List(f) == f \o <<>>

(***************************************************************************)
(* Integer helpers.                                                        *)
(***************************************************************************)
Abs(n) == IF n < 0 THEN -n ELSE n
Sign(n) == IF n < 0 THEN -1 ELSE 1
Min(a, b) == IF a <= b THEN a ELSE b
Max(a, b) == IF a >= b THEN a ELSE b

RECURSIVE Pow10(_)
Pow10(k) == IF k <= 0 THEN 1 ELSE 10 * Pow10(k - 1)

\* the number of decimal digits of n >= 0
RECURSIVE NumDigits(_)
NumDigits(n) == IF n < 10 THEN 1 ELSE 1 + NumDigits(n \div 10)

\* the largest t in lo..hi with t * t <= n (lo * lo <= n < (hi + 1)^2)
RECURSIVE IsqrtIn(_, _, _)
IsqrtIn(n, lo, hi) ==
    IF lo >= hi THEN lo
    ELSE With((lo + hi + 1) \div 2, LAMBDA mid :
             IF mid * mid <= n THEN IsqrtIn(n, mid, hi) ELSE IsqrtIn(n, lo, mid - 1))

Isqrt(n) == IsqrtIn(n, 0, 20000)

(***************************************************************************)
(* decimal.Decimal under the context of precision Prec.                    *)
(***************************************************************************)
\* the canonical record of the number c * 10^e
RECURSIVE Canon(_, _)
Canon(c, e) ==
    IF c = 0 THEN [c |-> 0, e |-> 0]
    ELSE IF Abs(c) % 10 = 0 THEN Canon(Sign(c) * (Abs(c) \div 10), e + 1)
    ELSE [c |-> c, e |-> e]

\* Decimal(n) of an int: exact, the context does not round a construction
Decimal(n) == Canon(n, 0)

\* the context's rounding of the exact result c0 * 10^e0 to Prec significant
\* digits, ROUND_HALF_EVEN
RoundToPrec(c0, e0) ==
    With2(c0, e0, LAMBDA c, e :
        With2(Abs(c), NumDigits(Abs(c)), LAMBDA a, n :
            IF n <= Prec THEN Canon(c, e)
            ELSE With2(a \div Pow10(n - Prec), a % Pow10(n - Prec), LAMBDA q, r :
                     LET half == 5 * Pow10(n - Prec - 1)
                         up == r > half \/ (r = half /\ q % 2 = 1)
                     IN Canon(Sign(c) * (IF up THEN q + 1 ELSE q), e + n - Prec))))

\* x.adjusted(): the exponent of the leading digit
Adjusted(x) == x.e + NumDigits(Abs(x.c)) - 1

\* Decimal.__mul__: the exact product, rounded
DecMul(x0, y0) ==
    With2(x0, y0, LAMBDA x, y : RoundToPrec(x.c * y.c, x.e + y.e))

\* Decimal.__add__: the exact sum, rounded.  As decimal's _normalize does, an
\* operand too small to reach the rounded digits of the other is replaced by
\* one unit just below them, which rounds the same way.
DecAdd(x0, y0) ==
    With2(x0, y0, LAMBDA x, y :
        IF x.c = 0 THEN RoundToPrec(y.c, y.e)
        ELSE IF y.c = 0 THEN RoundToPrec(x.c, x.e)
        ELSE With2(IF x.e >= y.e THEN x ELSE y, IF x.e >= y.e THEN y ELSE x, LAMBDA hi, lo :
                 With(hi.e + Min(-1, NumDigits(Abs(hi.c)) - Prec - 2), LAMBDA exp :
                     With(IF Adjusted(lo) < exp THEN [c |-> Sign(lo.c), e |-> exp] ELSE lo,
                          LAMBDA lo2 :
                              RoundToPrec(hi.c * Pow10(hi.e - lo2.e) + lo2.c, lo2.e)))))

\* Decimal.__neg__: rounded as every operation is
DecNeg(x0) == With(x0, LAMBDA x : RoundToPrec(-x.c, x.e))

\* Decimal.__sub__: x + (y with its sign flipped)
DecSub(x, y0) == With(y0, LAMBDA y : DecAdd(x, [c |-> -y.c, e |-> y.e]))

\* x ** 2 of a Decimal: the exact square, rounded
DecSquare(x0) == With(x0, LAMBDA x : RoundToPrec(x.c * x.c, x.e + x.e))

\* sum(list): 0 + x1 + x2 + ..., every addition rounded
RECURSIVE SumFrom(_, _, _)
SumFrom(acc, s, i) ==
    IF i > Len(s) THEN acc
    ELSE With(DecAdd(acc, s[i]), LAMBDA next : SumFrom(next, s, i + 1))

Sum(s0) == With(s0, LAMBDA s : SumFrom(Decimal(0), s, 1))

\* Zip pairing up to the longer length, the missing coordinates taken as 0
ZipLongest(s0, t0) ==
    With2(s0, t0, LAMBDA s, t :
        List([i \in 1..Max(Len(s), Len(t)) |->
                  <<IF i <= Len(s) THEN s[i] ELSE Decimal(0),
                    IF i <= Len(t) THEN t[i] ELSE Decimal(0)>>]))

\* zip(s, t): the pairs up to the shorter length
Zip(s0, t0) ==
    With2(s0, t0, LAMBDA s, t : List([i \in 1..Min(Len(s), Len(t)) |-> <<s[i], t[i]>>]))

\* Decimal('1') / Decimal(sqrt(S)) for a Decimal S > 0 of at most Prec digits:
\* 1 / sqrt(S) rounded to Prec digits.  S is m * 10^(2j) with 1 <= m < 10^4,
\* and the quotient's digits are the integer q nearest to 10^s / sqrt(m),
\* which is (t + 1) \div 2 for t the integer square root of 4 * 10^(2s) \div m.
\* (The double sqrt(S) is within 2^-52 of the real one, and no rounding
\* boundary of the quotient is that close: (2q + 1)^2 * m = 4 * 10^(2s) has no
\* solution with q of three digits and m below 10^4 other than m = 1024,
\* which is no S of three digits.)
OneOverSqrt(S0) ==
    With(S0, LAMBDA S :
        With2(IF S.e % 2 = 0 THEN S.c ELSE 10 * S.c,
              IF S.e % 2 = 0 THEN S.e \div 2 ELSE (S.e - 1) \div 2, LAMBDA m, j :
            With(IF m <= 1 THEN 2 ELSE IF m <= 100 THEN 3 ELSE 4, LAMBDA s :
                With(Isqrt((4 * Pow10(2 * s)) \div m), LAMBDA t :
                    Canon((t + 1) \div 2, -s - j)))))

(***************************************************************************)
(* Python values other than Decimal: None, an int, a bool, a list, and the *)
(* floats the code computes.                                               *)
(***************************************************************************)
PyNone == [type |-> "NoneType"]
PyInt(n) == [type |-> "int", n |-> n]
PyBool(b) == [type |-> "bool", b |-> b]
PyList(items) == [type |-> "list", items |-> items]

\* type(x).__name__
TypeOf(x) ==
    IF "c" \in DOMAIN x THEN "Decimal"
    ELSE IF "sqrt_of" \in DOMAIN x \/ "acos_of" \in DOMAIN x THEN "float"
    ELSE x.type

\* bool(x): None, 0 and the empty list are false
Truthy(x) ==
    CASE TypeOf(x) = "NoneType" -> FALSE
      [] TypeOf(x) = "int" -> x.n # 0
      [] TypeOf(x) = "list" -> Len(x.items) > 0
      [] OTHER -> TRUE

\* Decimal(x) of an int or of a Decimal
ToDecimal(x) == IF TypeOf(x) = "int" THEN Decimal(x.n) ELSE x

\* the tolerance 1e-10 of is_zero and is_orthogonal_to, as a power of ten
TOLERANCE_EXP == -10

(***************************************************************************)
(* class Vector.  A Vector is [coordinates, dimension]; a method takes     *)
(* self first and returns Ok(value) or Raise(class, message).              *)
(***************************************************************************)
\* Vector without the emptiness test
Vector_unchecked(coordinates0) ==
    With(coordinates0, LAMBDA coordinates :
        IF TypeOf(coordinates) # "list" THEN Raise("TypeError", ITERABLE_MSG)
        ELSE Ok([coordinates |-> List([i \in 1..Len(coordinates.items) |->
                                           ToDecimal(coordinates.items[i])]),
                 dimension |-> Len(coordinates.items)]))

\* __init__: the ValueError of the emptiness test and the TypeError of
\* iterating a non-iterable are caught and raised again with the class's
\* messages
Vector(coordinates0) ==
    With(coordinates0, LAMBDA coordinates :
        With(IF ~Truthy(coordinates) THEN Raise("ValueError", "")
             ELSE IF TypeOf(coordinates) # "list"
                  THEN Raise("TypeError", "object is not iterable")
             ELSE Ok([coordinates |-> List([i \in 1..Len(coordinates.items) |->
                                                ToDecimal(coordinates.items[i])]),
                      dimension |-> Len(coordinates.items)]),
             LAMBDA body :
                 IF IsRaise(body) /\ IsInstance(body.exc, "ValueError")
                 THEN Raise("ValueError", NONEMPTY_MSG)
                 ELSE IF IsRaise(body) /\ IsInstance(body.exc, "TypeError")
                 THEN Raise("TypeError", ITERABLE_MSG)
                 ELSE body))

\* __eq__
eq(self, v) == Ok(self.coordinates = v.coordinates)

plus(self, v) ==
    With(Zip(self.coordinates, v.coordinates), LAMBDA z :
        Vector(PyList(List([i \in DOMAIN z |-> DecAdd(z[i][1], z[i][2])]))))

minus(self, v) ==
    With(Zip(self.coordinates, v.coordinates), LAMBDA z :
        Vector(PyList(List([i \in DOMAIN z |-> DecSub(z[i][1], z[i][2])]))))

times_scalar(self0, scalar0) ==
    With2(self0, ToDecimal(scalar0), LAMBDA self, scalar :
        Vector(PyList(List([i \in DOMAIN self.coordinates |->
                                DecMul(scalar, self.coordinates[i])]))))

\* sqrt(sum(x**2)): a float, the square root of the Decimal sum
magnitude(self0) ==
    With(self0, LAMBDA self :
        Ok([sqrt_of |-> Sum(List([i \in DOMAIN self.coordinates |->
                                      DecSquare(self.coordinates[i])]))]))

\* Decimal('1') / Decimal(magnitude) raises decimal.DivisionByZero, a
\* ZeroDivisionError, when the magnitude is 0.0
normalized(self0) ==
    With2(self0, magnitude(self0).val, LAMBDA self, mag :
        With(IF mag.sqrt_of.c = 0 THEN Raise("ZeroDivisionError", "DivisionByZero")
             ELSE times_scalar(self, OneOverSqrt(mag.sqrt_of)),
             LAMBDA body :
                 IF IsRaise(body) /\ IsInstance(body.exc, "ZeroDivisionError")
                 THEN Raise("Exception", CANNOT_NORMALIZE_ZERO_VECTOR_MSG)
                 ELSE body))

dot(self, v) ==
    With(Zip(self.coordinates, v.coordinates), LAMBDA z :
        Ok(Sum(List([i \in DOMAIN z |-> DecMul(z[i][1], z[i][2])]))))

\* math.acos(d) raises ValueError unless -1 <= d <= 1
InAcosDomain(d) == d.c = 0 \/ Adjusted(d) < 0 \/ (Abs(d.c) = 1 /\ d.e = 0)

\* angle_with whose handler raises every exception again as it came
angle_with_untranslated(self, v, in_degrees) ==
    With2(normalized(self), normalized(v), LAMBDA u1, u2 :
        IF IsRaise(u1) THEN u1
        ELSE IF IsRaise(u2) THEN u2
        ELSE With2(Zip(u1.val.coordinates, u2.val.coordinates),
                   dot(u1.val, u2.val).val, LAMBDA z, d :
                 LET result == Cardinality({i \in DOMAIN z : z[i][1] = z[i][2]})
                 IN IF result = Len(u1.val.coordinates) THEN Ok(PyInt(0))
                    ELSE IF ~InAcosDomain(d)
                         THEN Raise("ValueError", "math domain error")
                    ELSE Ok([acos_of |-> d, in_degrees |-> in_degrees])))

angle_with(self, v, in_degrees) ==
    With2(normalized(self), normalized(v), LAMBDA u1, u2 :
        With(IF IsRaise(u1) THEN u1
             ELSE IF IsRaise(u2) THEN u2
             ELSE With2(Zip(u1.val.coordinates, u2.val.coordinates),
                        dot(u1.val, u2.val).val, LAMBDA z, d :
                      LET result == Cardinality({i \in DOMAIN z : z[i][1] = z[i][2]})
                      IN IF result = Len(u1.val.coordinates) THEN Ok(PyInt(0))
                         ELSE IF ~InAcosDomain(d)
                              THEN Raise("ValueError", "math domain error")
                         ELSE Ok([acos_of |-> d, in_degrees |-> in_degrees])),
             LAMBDA body :
                 IF IsRaise(body) /\ IsInstance(body.exc, "Exception")
                 THEN IF body.msg = CANNOT_NORMALIZE_ZERO_VECTOR_MSG
                      THEN Raise("Exception", ANGLE_ZERO_VECTOR_MSG)
                      ELSE body
                 ELSE body))

\* magnitude() < 1e-10: the sum of squares is below 1e-20
is_zero(self) ==
    With(magnitude(self).val.sqrt_of, LAMBDA S :
        Ok(S.c = 0 \/ Adjusted(S) < 2 * TOLERANCE_EXP))

\* abs(dot) < 1e-10, the double 1e-10 being a little above 10^-10
is_orthogonal_to(self, v) ==
    With(dot(self, v).val, LAMBDA d :
        Ok(d.c = 0 \/ Adjusted(d) < TOLERANCE_EXP
           \/ (Abs(d.c) = 1 /\ d.e = TOLERANCE_EXP)))

\* angle == 0: the int 0 of the shortcut, or acos(1.0)
AngleEqualsZero(a) ==
    IF TypeOf(a) = "int" THEN a.n = 0
    ELSE ~a.in_degrees /\ a.acos_of = Decimal(1)

\* angle == pi: acos(-1.0) is the double pi
AngleEqualsPi(a) ==
    TypeOf(a) = "float" /\ ~a.in_degrees /\ a.acos_of = Decimal(-1)

\* is_parallel_to computing the angle before it tests for the zero vector
is_parallel_to_eager(self, v) ==
    With(angle_with(self, v, FALSE), LAMBDA a :
        IF IsRaise(a) THEN a
        ELSE Ok(is_zero(self).val \/ is_zero(v).val
                \/ AngleEqualsZero(a.val) \/ AngleEqualsPi(a.val)))

\* the operands of "or" are evaluated left to right, up to the first true one
is_parallel_to(self, v) ==
    IF is_zero(self).val THEN Ok(TRUE)
    ELSE IF is_zero(v).val THEN Ok(TRUE)
    ELSE With(angle_with(self, v, FALSE), LAMBDA a :
             IF IsRaise(a) THEN a
             ELSE Ok(AngleEqualsZero(a.val) \/ AngleEqualsPi(a.val)))

\* component_parallel_to raising the parallel component's message
component_parallel_to_own_msg(self, basis) ==
    With(normalized(basis), LAMBDA u :
        With(IF IsRaise(u) THEN u
             ELSE times_scalar(u.val, dot(self, u.val).val),
             LAMBDA body :
                 IF IsRaise(body) /\ IsInstance(body.exc, "Exception")
                 THEN IF body.msg = CANNOT_NORMALIZE_ZERO_VECTOR_MSG
                      THEN Raise("Exception", NO_UNIQUE_PARALLEL_COMPONENT_MSG)
                      ELSE body
                 ELSE body))

component_parallel_to(self, basis) ==
    With(normalized(basis), LAMBDA u :
        With(IF IsRaise(u) THEN u
             ELSE times_scalar(u.val, dot(self, u.val).val),
             LAMBDA body :
                 IF IsRaise(body) /\ IsInstance(body.exc, "Exception")
                 THEN IF body.msg = CANNOT_NORMALIZE_ZERO_VECTOR_MSG
                      THEN Raise("Exception", NO_UNIQUE_ORTHOGONAL_COMPONENT_MSG)
                      ELSE body
                 ELSE body))

\* component_orthogonal_to adding the parallel component
component_orthogonal_to_plus(self, basis) ==
    With(component_parallel_to(self, basis), LAMBDA v_parallel :
        IF IsRaise(v_parallel) THEN v_parallel
        ELSE plus(self, v_parallel.val))

component_orthogonal_to(self, basis) ==
    With(component_parallel_to(self, basis), LAMBDA v_parallel :
        With(IF IsRaise(v_parallel) THEN v_parallel
             ELSE minus(self, v_parallel.val),
             LAMBDA body :
                 IF IsRaise(body) /\ IsInstance(body.exc, "Exception")
                 THEN IF body.msg = NO_UNIQUE_PARALLEL_COMPONENT_MSG
                      THEN Raise("Exception", NO_UNIQUE_ORTHOGONAL_COMPONENT_MSG)
                      ELSE body
                 ELSE body))

\* the message of the ValueError of "x, y, z = t" for a tuple of n # 3 values
UnpackMsg(n) ==
    IF n < 3 THEN "not enough values to unpack (expected 3, got " \o ToString(n) \o ")"
    ELSE "too many values to unpack (expected 3)"

\* x, y, z = t
Unpack3(t) == IF Len(t) = 3 THEN Ok(t) ELSE Raise("ValueError", UnpackMsg(Len(t)))

\* cross_product without the sign of the second coordinate
cross_product_unsigned(self, v) ==
    With2(Unpack3(self.coordinates), Unpack3(v.coordinates), LAMBDA a, b :
        IF IsRaise(a) THEN a
        ELSE IF IsRaise(b) THEN b
        ELSE LET x_1 == a.val[1]
                 y_1 == a.val[2]
                 z_1 == a.val[3]
                 x_2 == b.val[1]
                 y_2 == b.val[2]
                 z_2 == b.val[3]
             IN Vector(PyList(<<
                    DecSub(DecMul(y_1, z_2), DecMul(y_2, z_1)),
                    DecSub(DecMul(x_1, z_2), DecMul(x_2, z_1)),
                    DecSub(DecMul(x_1, y_2), DecMul(x_2, y_1)) >>)))

cross_product(self, v) ==
    With2(Unpack3(self.coordinates), Unpack3(v.coordinates), LAMBDA a, b :
        With(IF IsRaise(a) THEN a
             ELSE IF IsRaise(b) THEN b
             ELSE LET x_1 == a.val[1]
                      y_1 == a.val[2]
                      z_1 == a.val[3]
                      x_2 == b.val[1]
                      y_2 == b.val[2]
                      z_2 == b.val[3]
                  IN Vector(PyList(<<
                         DecSub(DecMul(y_1, z_2), DecMul(y_2, z_1)),
                         DecNeg(DecSub(DecMul(x_1, z_2), DecMul(x_2, z_1))),
                         DecSub(DecMul(x_1, y_2), DecMul(x_2, y_1)) >>)),
             LAMBDA body :
                 IF IsRaise(body) /\ IsInstance(body.exc, "ValueError")
                 THEN IF body.msg = NOT_ENOUGH_VALUES_MSG
                      THEN Raise("Exception", ONLY_DEFINED_IN_THREE_DIMS_MSG)
                      ELSE body
                 ELSE body))

area_of_parallelgram(self, v) ==
    With(cross_product(self, v), LAMBDA c :
        IF IsRaise(c) THEN c ELSE magnitude(c.val))

\* x / y: float.__truediv__ and Decimal.__rtruediv__ both refuse the other
\* type, so a float divided by a Decimal is a TypeError
TrueDiv(x, y) ==
    IF TypeOf(x) = "float" /\ TypeOf(y) = "Decimal"
    THEN Raise("TypeError", "unsupported operand type(s) for /: 'float' and 'decimal.Decimal'")
    ELSE Raise("TypeError", "unsupported operand type(s) for /")

area_of_triangle(self, v) ==
    With(cross_product(self, v), LAMBDA c :
        IF IsRaise(c) THEN c
        ELSE TrueDiv(magnitude(c.val).val, Canon(20, -1)))

(***************************************************************************)
(* The caller.  vector.py keeps no state of its own beyond the decimal     *)
(* context: the state is the caller's.  It constructs two operands, self   *)
(* and v, calls one method on them, and may bind a returned Vector to self *)
(* or v and call again.                                                    *)
(*   self, v  the operands: a Vector, or None before its construction      *)
(*   call     the last call made: its name and its argument                *)
(*   ret      what that call returned or raised                            *)
(*   steps    how many returned Vectors were bound so far                  *)
(***************************************************************************)
VARIABLES self, v, call, ret, steps

vars == <<self, v, call, ret, steps>>

Bound(x) == "coordinates" \in DOMAIN x

\* the lists of ints of at most MaxDim elements drawn from C
InputLists(C) ==
    UNION {{PyList(s) : s \in [1..d -> {PyInt(n) : n \in C}]} : d \in 0..MaxDim}

\* what a caller gives the constructor: nothing, a number, a list of numbers
Inputs(C) == {PyNone} \cup {PyInt(n) : n \in C} \cup InputLists(C)

\* the methods that return a Vector
VectorMethods ==
    {"plus", "minus", "times_scalar", "normalized", "component_parallel_to",
     "component_orthogonal_to", "cross_product"}

Init ==
    /\ self = PyNone
    /\ v = PyNone
    /\ call = [op |-> "import", arg |-> PyNone]
    /\ ret = Ok(PyNone)
    /\ steps = 0

\* Vector(coordinates), bound to the first operand that has none
Construct(coordinates) ==
    /\ ~Bound(self) \/ ~Bound(v)
    /\ LET r == Vector(coordinates)
       IN /\ ret' = r
          /\ self' = IF IsOk(r) /\ ~Bound(self) THEN r.val ELSE self
          /\ v' = IF IsOk(r) /\ Bound(self) THEN r.val ELSE v
    /\ call' = [op |-> "Vector", arg |-> coordinates]
    /\ UNCHANGED steps

\* both operands exist and the last result was kept or dropped
Ready == Bound(self) /\ Bound(v) /\ call.op \in {"Vector", "bind"}

Eq ==
    /\ Ready
    /\ call' = [op |-> "__eq__", arg |-> PyNone]
    /\ ret' = eq(self, v)
    /\ UNCHANGED <<self, v, steps>>

Plus ==
    /\ Ready
    /\ call' = [op |-> "plus", arg |-> PyNone]
    /\ ret' = plus(self, v)
    /\ UNCHANGED <<self, v, steps>>

Minus ==
    /\ Ready
    /\ call' = [op |-> "minus", arg |-> PyNone]
    /\ ret' = minus(self, v)
    /\ UNCHANGED <<self, v, steps>>

TimesScalar(scalar) ==
    /\ Ready
    /\ call' = [op |-> "times_scalar", arg |-> scalar]
    /\ ret' = times_scalar(self, scalar)
    /\ UNCHANGED <<self, v, steps>>

Magnitude ==
    /\ Ready
    /\ call' = [op |-> "magnitude", arg |-> PyNone]
    /\ ret' = magnitude(self)
    /\ UNCHANGED <<self, v, steps>>

Normalized ==
    /\ Ready
    /\ call' = [op |-> "normalized", arg |-> PyNone]
    /\ ret' = normalized(self)
    /\ UNCHANGED <<self, v, steps>>

Dot ==
    /\ Ready
    /\ call' = [op |-> "dot", arg |-> PyNone]
    /\ ret' = dot(self, v)
    /\ UNCHANGED <<self, v, steps>>

AngleWith(in_degrees) ==
    /\ Ready
    /\ call' = [op |-> "angle_with", arg |-> PyBool(in_degrees)]
    /\ ret' = angle_with(self, v, in_degrees)
    /\ UNCHANGED <<self, v, steps>>

IsParallelTo ==
    /\ Ready
    /\ call' = [op |-> "is_parallel_to", arg |-> PyNone]
    /\ ret' = is_parallel_to(self, v)
    /\ UNCHANGED <<self, v, steps>>

IsOrthogonalTo ==
    /\ Ready
    /\ call' = [op |-> "is_orthogonal_to", arg |-> PyNone]
    /\ ret' = is_orthogonal_to(self, v)
    /\ UNCHANGED <<self, v, steps>>

IsZero ==
    /\ Ready
    /\ call' = [op |-> "is_zero", arg |-> PyNone]
    /\ ret' = is_zero(self)
    /\ UNCHANGED <<self, v, steps>>

\* self.component_parallel_to(v): v is the basis
ComponentParallelTo ==
    /\ Ready
    /\ call' = [op |-> "component_parallel_to", arg |-> PyNone]
    /\ ret' = component_parallel_to(self, v)
    /\ UNCHANGED <<self, v, steps>>

\* self.component_orthogonal_to(v): v is the basis
ComponentOrthogonalTo ==
    /\ Ready
    /\ call' = [op |-> "component_orthogonal_to", arg |-> PyNone]
    /\ ret' = component_orthogonal_to(self, v)
    /\ UNCHANGED <<self, v, steps>>

CrossProduct ==
    /\ Ready
    /\ call' = [op |-> "cross_product", arg |-> PyNone]
    /\ ret' = cross_product(self, v)
    /\ UNCHANGED <<self, v, steps>>

AreaOfParallelgram ==
    /\ Ready
    /\ call' = [op |-> "area_of_parallelgram", arg |-> PyNone]
    /\ ret' = area_of_parallelgram(self, v)
    /\ UNCHANGED <<self, v, steps>>

AreaOfTriangle ==
    /\ Ready
    /\ call' = [op |-> "area_of_triangle", arg |-> PyNone]
    /\ ret' = area_of_triangle(self, v)
    /\ UNCHANGED <<self, v, steps>>

\* self = <the Vector returned>, or v = <the Vector returned>
Rebind(target) ==
    /\ call.op \in VectorMethods
    /\ IsOk(ret)
    /\ steps < MaxSteps
    /\ self' = IF target = "self" THEN ret.val ELSE self
    /\ v' = IF target = "v" THEN ret.val ELSE v
    /\ call' = [op |-> "bind", arg |-> PyNone]
    /\ ret' = Ok(PyNone)
    /\ steps' = steps + 1

Calls ==
    \/ Eq
    \/ Plus
    \/ Minus
    \/ \E scalar \in {PyInt(n) : n \in Coords} : TimesScalar(scalar)
    \/ Magnitude
    \/ Normalized
    \/ Dot
    \/ \E in_degrees \in BOOLEAN : AngleWith(in_degrees)
    \/ IsParallelTo
    \/ IsOrthogonalTo
    \/ IsZero
    \/ ComponentParallelTo
    \/ ComponentOrthogonalTo
    \/ CrossProduct
    \/ AreaOfParallelgram
    \/ AreaOfTriangle

\* every method once on every pair of operands built from Coords
Next ==
    \/ \E coordinates \in Inputs(Coords) : Construct(coordinates)
    \/ Calls

Spec == Init /\ [][Next]_vars

\* sequences of calls, each on operands an earlier call returned, starting
\* from the operands built from SeedCoords
NextSeq ==
    \/ \E coordinates \in Inputs(SeedCoords) : Construct(coordinates)
    \/ Calls
    \/ \E target \in {"self", "v"} : Rebind(target)

SpecSeq == Init /\ [][NextSeq]_vars

(***************************************************************************)
(* Properties.  In a state reached by a method call, self and v are the    *)
(* operands of the call, call names it and ret is its outcome.             *)
(***************************************************************************)
\* the Vector x has no coordinate other than 0
IsZeroVector(x) == \A i \in DOMAIN x.coordinates : x.coordinates[i].c = 0

\* the integer a Decimal with no fractional digit stands for
IntValue(x) == x.c * Pow10(x.e)

\* the number of units of 10^e in the Decimal x, for e <= x.e
Units(x, e) == IF x.c = 0 THEN 0 ELSE x.c * Pow10(x.e - e)

\* |got - want| is at most 2% of the larger of |want| and |other|
WithinRounding(got, want, other) ==
    LET e == Min(Min(got.e, want.e), other.e)
    IN 50 * Abs(Units(got, e) - Units(want, e))
           <= Max(Abs(Units(want, e)), Abs(Units(other, e)))

\* x is a Vector as the constructor makes them
WellFormed(x) == x.dimension >= 1 /\ x.dimension = Len(x.coordinates)

\* C1: cross_product fails with 'Cross product can only be defined in three
\* dimensions' whenever self or v does not have exactly 3 coordinates.
C1_CrossProductDimensionError ==
    (call.op = "cross_product"
        /\ (Len(self.coordinates) # 3 \/ Len(v.coordinates) # 3))
    => (IsRaise(ret) /\ ret.msg = ONLY_DEFINED_IN_THREE_DIMS_MSG)

\* half of the float x
Half(x) == [half_of |-> x]

\* C2: for self and v of exactly 3 coordinates, area_of_triangle(v) returns
\* without an error, and returns half of area_of_parallelgram(v).
C2_AreaOfTriangleIsHalf ==
    (call.op = "area_of_triangle"
        /\ Len(self.coordinates) = 3 /\ Len(v.coordinates) = 3)
    => (IsOk(ret) /\ ret.val = Half(area_of_parallelgram(self, v).val))

\* C3: Vector(n) of a single number n, whatever its value, fails with 'The
\* coordinates must be an iterable'.
C3_ScalarIsNotIterable ==
    (call.op = "Vector" /\ TypeOf(call.arg) = "int")
    => (IsRaise(ret) /\ ret.msg = ITERABLE_MSG)

\* the sum plus(component_parallel_to(basis), component_orthogonal_to(basis))
\* has as many coordinates as self, each within rounding of self's
RoundTrip(x, basis, orthogonal) ==
    LET parallel == component_parallel_to(x, basis)
        total == plus(parallel.val, orthogonal.val)
    IN /\ IsOk(orthogonal)
       /\ IsOk(parallel)
       /\ IsOk(total)
       /\ Len(total.val.coordinates) = Len(x.coordinates)
       /\ \A i \in DOMAIN x.coordinates :
              WithinRounding(total.val.coordinates[i], x.coordinates[i],
                             parallel.val.coordinates[i])

\* C4, as claimed: for every self and every non-zero basis, whatever their
\* dimensions, the parallel and the orthogonal component add up to self
\* within rounding, with as many coordinates as self.
C4_RoundTripAnyDimension ==
    (call.op = "component_orthogonal_to" /\ ~IsZeroVector(v))
    => RoundTrip(self, v, ret)

\* C4, amended: for every self and every non-zero basis with at least as
\* many coordinates as self, the parallel and the orthogonal component add
\* up to self within rounding (each coordinate within 2% of the larger of
\* self's and the parallel component's), with as many coordinates as self.
C4_RoundTrip ==
    (call.op = "component_orthogonal_to" /\ ~IsZeroVector(v)
        /\ Len(v.coordinates) >= Len(self.coordinates))
    => RoundTrip(self, v, ret)

\* a round trip of a basis longer than self in which rounding shows
C4_Witness ==
    /\ call.op = "component_orthogonal_to"
    /\ ~IsZeroVector(v)
    /\ Len(v.coordinates) > Len(self.coordinates)
    /\ IsOk(ret)
    /\ plus(component_parallel_to(self, v).val, ret.val).val.coordinates
           # self.coordinates

\* C5: plus and minus of vectors of m and n coordinates raise no error and
\* return a Vector of min(m, n) coordinates, the i-th being self[i] + v[i]
\* (self[i] - v[i] for minus).
C5_PlusMinusShortest ==
    (call.op \in {"plus", "minus"})
    => LET n == Min(Len(self.coordinates), Len(v.coordinates))
       IN /\ IsOk(ret)
          /\ ret.val.dimension = n
          /\ Len(ret.val.coordinates) = n
          /\ \A i \in 1..n :
                 ret.val.coordinates[i] =
                     Decimal(IF call.op = "plus"
                             THEN IntValue(self.coordinates[i]) + IntValue(v.coordinates[i])
                             ELSE IntValue(self.coordinates[i]) - IntValue(v.coordinates[i]))

\* a sum of a longer and a shorter vector
C5_Witness ==
    /\ call.op = "plus"
    /\ Len(self.coordinates) > Len(v.coordinates)
    /\ IsOk(ret)
    /\ ~IsZeroVector(ret.val)

\* C6: for a zero basis, component_parallel_to and component_orthogonal_to
\* both fail with 'No unique orthogonal component exists'; neither fails
\* with the message of normalized(), nor with 'No unique parallel component
\* exists'.
C6_ZeroBasisMessage ==
    (call.op \in {"component_parallel_to", "component_orthogonal_to"})
    => /\ IsZeroVector(v)
           => (IsRaise(ret) /\ ret.msg = NO_UNIQUE_ORTHOGONAL_COMPONENT_MSG)
       /\ IsRaise(ret)
           => ret.msg \notin {CANNOT_NORMALIZE_ZERO_VECTOR_MSG,
                              NO_UNIQUE_PARALLEL_COMPONENT_MSG}

\* the parallel component along a zero basis, of a self that is not zero
C6_Witness ==
    /\ call.op = "component_parallel_to"
    /\ IsZeroVector(v)
    /\ ~IsZeroVector(self)
    /\ IsRaise(ret)

\* C7: angle_with fails with 'Cannot compute an angle with the zero vector'
\* whenever self or v is the zero vector, in radians and in degrees, and
\* never with the message of normalized().
C7_AngleWithZeroVector ==
    (call.op = "angle_with")
    => /\ (IsZeroVector(self) \/ IsZeroVector(v))
           => (IsRaise(ret) /\ ret.msg = ANGLE_ZERO_VECTOR_MSG)
       /\ IsRaise(ret) => ret.msg # CANNOT_NORMALIZE_ZERO_VECTOR_MSG

\* the angle in degrees of a non-zero self with a zero v
C7_Witness ==
    /\ call.op = "angle_with"
    /\ call.arg = PyBool(TRUE)
    /\ ~IsZeroVector(self)
    /\ IsZeroVector(v)
    /\ IsRaise(ret)

\* C8: is_parallel_to returns True, and raises nothing, whenever self or v
\* is the zero vector.
C8_ParallelToZeroVector ==
    (call.op = "is_parallel_to" /\ (IsZeroVector(self) \/ IsZeroVector(v)))
    => (IsOk(ret) /\ ret.val = TRUE)

\* is_parallel_to of a non-zero self and a zero v, where angle_with raises
C8_Witness ==
    /\ call.op = "is_parallel_to"
    /\ ~IsZeroVector(self)
    /\ IsZeroVector(v)
    /\ IsOk(ret)
    /\ IsRaise(angle_with(self, v, FALSE))

\* C9: for self = (x1, y1, z1) and v = (x2, y2, z2) of small integers,
\* cross_product returns the Vector of the 3 coordinates
\* (y1*z2 - y2*z1, -(x1*z2 - x2*z1), x1*y2 - x2*y1).
C9_CrossProductFormula ==
    (call.op = "cross_product"
        /\ Len(self.coordinates) = 3 /\ Len(v.coordinates) = 3)
    => LET x1 == IntValue(self.coordinates[1])
           y1 == IntValue(self.coordinates[2])
           z1 == IntValue(self.coordinates[3])
           x2 == IntValue(v.coordinates[1])
           y2 == IntValue(v.coordinates[2])
           z2 == IntValue(v.coordinates[3])
       IN /\ IsOk(ret)
          /\ ret.val.dimension = 3
          /\ ret.val.coordinates =
                 << Decimal(y1 * z2 - y2 * z1),
                    Decimal(-(x1 * z2 - x2 * z1)),
                    Decimal(x1 * y2 - x2 * y1) >>

\* a cross product whose second coordinate is not 0
C9_Witness ==
    /\ call.op = "cross_product"
    /\ Len(self.coordinates) = 3
    /\ Len(v.coordinates) = 3
    /\ IsOk(ret)
    /\ ret.val.coordinates[2].c # 0

\* C10: Vector() of an empty or absent input fails with 'The coordinates
\* must be nonempty', and every Vector there is, an operand or the result of
\* a call, has dimension >= 1 and as many coordinates as its dimension.
C10_NoEmptyVector ==
    /\ (call.op = "Vector" /\ call.arg \in {PyNone, PyList(<<>>)})
           => (IsRaise(ret) /\ ret.msg = NONEMPTY_MSG)
    /\ Bound(self) => WellFormed(self)
    /\ Bound(v) => WellFormed(v)
    /\ (call.op \in VectorMethods \cup {"Vector"} /\ IsOk(ret)) => WellFormed(ret.val)

\* a difference of operands of unequal lengths that earlier calls returned,
\* which is left with one coordinate
C10_Witness ==
    /\ steps = MaxSteps
    /\ call.op = "minus"
    /\ IsOk(ret)
    /\ Len(self.coordinates) # Len(v.coordinates)
    /\ Len(ret.val.coordinates) = 1

=============================================================================
